---- MODULE Spec2Model ----
(***************************************************************************)
(* A model of value-hunter-api: the stock screening / enrichment pipeline  *)
(* (fetchStocks), the scoring service (aiScoring), the notifier            *)
(* (notifyDiscord) and the HTTP entry point (index).                       *)
(***************************************************************************)
EXTENDS Integers, Sequences, FiniteSets, TLC

(***************************************************************************)
(* Bounds of the model.                                                    *)
(***************************************************************************)
MaxCands == 3

(***************************************************************************)
(* JavaScript values.  Every value is a record [t, v] so that values of    *)
(* different JavaScript types can be compared.                             *)
(***************************************************************************)
Num(n) == [t |-> "number", v |-> n]
Undefined == [t |-> "undefined", v |-> 0]
Null == [t |-> "null", v |-> 0]
NaN == [t |-> "NaN", v |-> 0]
PosInfinity == [t |-> "Infinity", v |-> 0]

\* typeof x === "number" (NaN and Infinity are numbers too)
TypeofNumber(x) == x.t \in {"number", "NaN", "Infinity"}

\* ToBoolean(x) for the values above
Truthy(x) ==
  \/ x.t = "number" /\ x.v # 0
  \/ x.t = "Infinity"
  \/ x.t = "string" /\ Len(x.v) > 0
  \/ x.t = "boolean" /\ x.v

\* x > 0
GreaterThanZero(x) == (x.t = "number" /\ x.v > 0) \/ x.t = "Infinity"

Max2(a, b) == IF a >= b THEN a ELSE b

\* ToNumber(x): undefined -> NaN, null -> 0
ToNumber(x) == IF x.t = "undefined" THEN NaN ELSE IF x.t = "null" THEN Num(0) ELSE x

\* Math.max(a, b): NaN as soon as one argument converts to NaN
MathMax(a, b) ==
  LET x == ToNumber(a)
      y == ToNumber(b)
  IN IF x.t = "NaN" \/ y.t = "NaN" THEN NaN
     ELSE IF x.t = "Infinity" \/ y.t = "Infinity" THEN PosInfinity
     ELSE Num(Max2(x.v, y.v))

(***************************************************************************)
(* fetchStocks: the per-symbol fetchers.  A fetcher is modelled by what it *)
(* returns for the answer axios.get gives: "throw" is a rejected request.  *)
(***************************************************************************)
Thrown == [t |-> "thrown", v |-> 0]

\* answers of the price-target-summary endpoint: v is data[0].allTimeAvgPriceTarget
TPThrow == [t |-> "throw", v |-> Undefined]
TPEmpty == [t |-> "empty", v |-> Undefined]
TPData(x) == [t |-> "data", v |-> x]
TPNotFetched == [t |-> "notFetched", v |-> Undefined]

getTargetPrice(resp) ==
  IF resp.t = "throw" THEN Null
  ELSE IF resp.t = "empty" THEN Null
  ELSE IF Truthy(resp.v) /\ GreaterThanZero(resp.v) THEN resp.v ELSE Null

\* answers of the analyst-estimates endpoint: v is the array of estimates, latest
\* first; obj = FALSE is an entry that is null (reading a property of it throws).
\* The margins of StockInsights need real arithmetic and are left out; period
\* and analystCount are kept.
Estimate(date, eps, nEps, nRev) ==
  [obj |-> TRUE, date |-> date, epsAvg |-> eps, numAnalystsEps |-> nEps,
   numAnalystsRevenue |-> nRev]
NullEstimate ==
  [obj |-> FALSE, date |-> 0, epsAvg |-> Undefined, numAnalystsEps |-> Undefined,
   numAnalystsRevenue |-> Undefined]
ESThrow == [t |-> "throw", v |-> <<>>]
ESNotArray == [t |-> "notArray", v |-> <<>>]
ESData(seq) == [t |-> "data", v |-> seq]
ESNotFetched == [t |-> "notFetched", v |-> <<>>]

False == [t |-> "false", period |-> 0, analystCount |-> Undefined]
SentimentThrown == [t |-> "thrown", period |-> 0, analystCount |-> Undefined]

extractKeyInsights(data) ==
  [t |-> "insights", period |-> data.date,
   analystCount |-> MathMax(data.numAnalystsRevenue, data.numAnalystsEps)]

getAnalystSentiment(resp) ==
  IF resp.t = "throw" THEN False
  ELSE IF resp.t = "notArray" \/ Len(resp.v) = 0 THEN False
  ELSE LET latestEstimate == resp.v[1] IN
       IF ~latestEstimate.obj THEN False
       ELSE IF ~TypeofNumber(latestEstimate.epsAvg)
               \/ ~TypeofNumber(latestEstimate.numAnalystsEps) THEN False
       ELSE extractKeyInsights(latestEstimate)

\* answers of the key-metrics-ttm endpoint: the three ratios of data[0]
KMThrow == [t |-> "throw", pe |-> Undefined, pb |-> Undefined, de |-> Undefined]
KMEmpty == [t |-> "empty", pe |-> Undefined, pb |-> Undefined, de |-> Undefined]
KMData(pe, pb, de) == [t |-> "data", pe |-> pe, pb |-> pb, de |-> de]
KMNotFetched == [t |-> "notFetched", pe |-> Undefined, pb |-> Undefined, de |-> Undefined]

NoMetrics == [t |-> "metrics", pe |-> Undefined, pb |-> Undefined, debtToEquity |-> Undefined]
MetricsThrown == [t |-> "thrown", pe |-> Undefined, pb |-> Undefined, debtToEquity |-> Undefined]

\* getMetrics without its catch block: a rejected request throws to the caller
getMetricsUncaught(resp) ==
  IF resp.t = "throw" THEN MetricsThrown
  ELSE IF resp.t = "empty" THEN NoMetrics
  ELSE [t |-> "metrics", pe |-> resp.pe, pb |-> resp.pb, debtToEquity |-> resp.de]

getMetrics(resp) ==
  IF resp.t = "throw" THEN NoMetrics
  ELSE IF resp.t = "empty" THEN NoMetrics
  ELSE [t |-> "metrics", pe |-> resp.pe, pb |-> resp.pb, debtToEquity |-> resp.de]

\* the stub: no request is made, the answer is always null
getRsi(symbol) == Null

\* rsi ?? 50
RsiDefault == 50
RsiOrDefault(rsi) == IF rsi.t \in {"null", "undefined"} THEN Num(RsiDefault) ELSE rsi

(***************************************************************************)
(* fetchStocks: fetchUndervaluedStocks.                                    *)
(***************************************************************************)
VARIABLES
  pc,         \* where the run of fetchUndervaluedStocks stands
  step,       \* the fetcher the loop body is at
  screener,   \* the answer of the screener call
  filtered,   \* data.filter(...)
  i,          \* position of the loop in filtered
  enriched,   \* the result being built
  tpResp,     \* per symbol: the answer its target-price request got
  esResp,     \* per symbol: the answer its analyst-estimates request got
  kmResp,     \* per symbol: the answer its key-metrics request got
  calls,      \* the per-symbol fetcher calls in the order they were made
  sPc,        \* getAnalystSentiment on its own: where the call stands
  sResp,      \*   the answer of the analyst-estimates endpoint
  sResult,    \*   what getAnalystSentiment returned
  qPc,        \* the screener query: where the call stands
  qVia,       \*   "handler" (GET /run) or "direct" (a caller of fetchUndervaluedStocks)
  qRequest,   \*   req.query, per key
  qOptions,   \*   the ScreenerOptions handed to buildQueryParams
  query,      \*   the key=value parts of the query string
  hPc,        \* GET /run: where the handler stands
  fetched,    \*   how fetchUndervaluedStocks ended
  reply,      \*   the answer of the chat-completion request
  scored,     \*   what scoreAndExplain returned
  top3,       \*   the list runBot hands to notifyDiscord and returns
  posts,      \*   the lists posted to the chat API
  discord,    \*   the answer of the chat API
  logs,       \*   what notifyDiscord logged
  responses,  \*   the responses sent for the request
  env,        \* process.env, per credential
  boot,       \* where the start of the process stands
  runsStarted \* runs started by GET /run

fetchVars == <<pc, step, screener, filtered, i, enriched, tpResp, esResp, kmResp, calls>>
sentimentVars == <<sPc, sResp, sResult>>
queryVars == <<qPc, qVia, qRequest, qOptions, query>>
runVars == <<hPc, fetched, reply, scored, top3, posts, discord, logs, responses>>
bootVars == <<env, boot, runsStarted>>
vars == <<fetchVars, sentimentVars, queryVars, runVars, bootVars>>

Prices == {100, 110}
Symbols == 1 .. MaxCands

\* the candidates of a screener answer; the symbol of the p-th one is p
Shapes == [price : Prices, isEtf : BOOLEAN, isFund : BOOLEAN]
DataOfLen(n) ==
  { [p \in 1 .. n |-> [symbol |-> p, price |-> Num(f[p].price),
                       isEtf |-> f[p].isEtf, isFund |-> f[p].isFund]]
      : f \in [1 .. n -> Shapes] }
SCThrow == [t |-> "throw", v |-> <<>>]
SCNotArray == [t |-> "notArray", v |-> <<>>]
SCNone == [t |-> "none", v |-> <<>>]
ScreenerResponses ==
  {SCThrow, SCNotArray} \cup { [t |-> "data", v |-> d] : d \in UNION { DataOfLen(n) : n \in 0 .. MaxCands } }

TPResponses == {TPThrow, TPEmpty, TPData(Num(0)), TPData(Num(150)), TPData(Num(160))}
ESResponses ==
  {ESThrow, ESData(<<>>),
   ESData(<<Estimate(2026, Undefined, Num(3), Num(2))>>),
   ESData(<<Estimate(2026, Num(2), Num(3), Num(5))>>)}
KMResponses ==
  {KMThrow, KMEmpty, KMData(Num(12), Null, Num(1)), KMData(Num(12), Num(2), Num(1))}

\* data.filter((s) => !s.isEtf && !s.isFund)
FilterFlags(data) == SelectSeq(data, LAMBDA s : ~s.isEtf /\ ~s.isFund)

\* targetPrice / price <= 1.5, for a targetPrice that passed !targetPrice
\* (a positive number): x/0 is Infinity, and a comparison with NaN is false
RatioAtMost15(targetPrice, price) ==
  IF targetPrice.t # "number" \/ price.t # "number" THEN FALSE
  ELSE IF price.v = 0 THEN targetPrice.v < 0
  ELSE IF price.v > 0 THEN 2 * targetPrice.v <= 3 * price.v
  ELSE 2 * targetPrice.v >= 3 * price.v

\* targetPrice / price < 1.5
RatioBelow15(targetPrice, price) ==
  IF targetPrice.t # "number" \/ price.t # "number" THEN FALSE
  ELSE IF price.v = 0 THEN targetPrice.v < 0
  ELSE IF price.v > 0 THEN 2 * targetPrice.v < 3 * price.v
  ELSE 2 * targetPrice.v > 3 * price.v

\* the test of line 206 with < for <=
SkipTargetStrict(targetPrice, price) ==
  ~Truthy(targetPrice) \/ RatioBelow15(targetPrice, price)

\* line 206: if (!targetPrice || targetPrice / price <= 1.5) continue
SkipTarget(targetPrice, price) ==
  ~Truthy(targetPrice) \/ RatioAtMost15(targetPrice, price)

\* line 210 without its continue
SkipSentimentNever(analystSentiment) == FALSE

\* line 210: if (!analystSentiment) continue
SkipSentiment(analystSentiment) == analystSentiment.t = "false"

\* lines 214-220
SkipMetrics(metrics) ==
  \/ ~TypeofNumber(metrics.pe)
  \/ ~TypeofNumber(metrics.pb)
  \/ ~TypeofNumber(metrics.debtToEquity)

\* lines 225-235
MakeStock(stock, targetPrice, analystSentiment, metrics, rsi) ==
  [symbol |-> stock.symbol, price |-> stock.price, targetPrice |-> targetPrice,
   pe |-> metrics.pe, pb |-> metrics.pb, rsi |-> RsiOrDefault(rsi),
   debtToEquity |-> metrics.debtToEquity,
   period |-> analystSentiment.period, analystCount |-> analystSentiment.analystCount]

FetchInit ==
  /\ pc = "start"
  /\ step = "none"
  /\ screener = SCNone
  /\ filtered = <<>>
  /\ i = 0
  /\ enriched = <<>>
  /\ tpResp = [s \in Symbols |-> TPNotFetched]
  /\ esResp = [s \in Symbols |-> ESNotFetched]
  /\ kmResp = [s \in Symbols |-> KMNotFetched]
  /\ calls = <<>>

\* line 196: the screener request is sent
CallScreener ==
  /\ pc = "start"
  /\ pc' = "screener"
  /\ UNCHANGED <<step, screener, filtered, i, enriched, tpResp, esResp, kmResp, calls>>
  /\ UNCHANGED <<sentimentVars, queryVars, runVars, bootVars>>

\* lines 196-199 and 239-245: the screener answers; a rejected request, or an
\* answer that has no filter method, ends the run in the catch block
ScreenerReturns ==
  /\ pc = "screener"
  /\ \E r \in ScreenerResponses :
       /\ screener' = r
       /\ IF r.t # "data"
            THEN /\ pc' = "thrown"
                 /\ UNCHANGED <<filtered, i>>
            ELSE /\ filtered' = FilterFlags(r.v)
                 /\ i' = 1
                 /\ pc' = "loop"
  /\ UNCHANGED <<step, enriched, tpResp, esResp, kmResp, calls>>
  /\ UNCHANGED <<sentimentVars, queryVars, runVars, bootVars>>

\* line 201: the head of the for loop; line 238 when the loop is over
LoopHead ==
  /\ pc = "loop"
  /\ IF i > Len(filtered)
       THEN /\ pc' = "returned"
            /\ step' = "none"
       ELSE /\ pc' = "call"
            /\ step' = "getTargetPrice"
  /\ UNCHANGED <<screener, filtered, i, enriched, tpResp, esResp, kmResp, calls>>
  /\ UNCHANGED <<sentimentVars, queryVars, runVars, bootVars>>

\* lines 205, 209, 213, 223: the fetcher of the current step is called
CallFetcher ==
  /\ pc = "call"
  /\ calls' = Append(calls, [symbol |-> filtered[i].symbol, fn |-> step, done |-> FALSE])
  /\ pc' = "await"
  /\ UNCHANGED <<step, screener, filtered, i, enriched, tpResp, esResp, kmResp>>
  /\ UNCHANGED <<sentimentVars, queryVars, runVars, bootVars>>

Returned(log) == [log EXCEPT ![Len(log)].done = TRUE]

\* continue
Continue == i' = i + 1 /\ pc' = "loop" /\ step' = "none"

\* lines 205-206
TargetPriceReturns ==
  /\ pc = "await" /\ step = "getTargetPrice"
  /\ \E resp \in TPResponses :
       LET targetPrice == getTargetPrice(resp) IN
       /\ tpResp' = [tpResp EXCEPT ![filtered[i].symbol] = resp]
       /\ IF targetPrice = Thrown
            THEN pc' = "thrown" /\ UNCHANGED <<step, i>>
            ELSE IF SkipTarget(targetPrice, filtered[i].price)
                   THEN Continue
                   ELSE pc' = "call" /\ step' = "getAnalystSentiment" /\ UNCHANGED i
  /\ calls' = Returned(calls)
  /\ UNCHANGED <<screener, filtered, enriched, esResp, kmResp>>
  /\ UNCHANGED <<sentimentVars, queryVars, runVars, bootVars>>

\* lines 209-210
AnalystSentimentReturns ==
  /\ pc = "await" /\ step = "getAnalystSentiment"
  /\ \E resp \in ESResponses :
       LET analystSentiment == getAnalystSentiment(resp) IN
       /\ esResp' = [esResp EXCEPT ![filtered[i].symbol] = resp]
       /\ IF analystSentiment = SentimentThrown
            THEN pc' = "thrown" /\ UNCHANGED <<step, i>>
            ELSE IF SkipSentiment(analystSentiment)
                   THEN Continue
                   ELSE pc' = "call" /\ step' = "getMetrics" /\ UNCHANGED i
  /\ calls' = Returned(calls)
  /\ UNCHANGED <<screener, filtered, enriched, tpResp, kmResp>>
  /\ UNCHANGED <<sentimentVars, queryVars, runVars, bootVars>>

\* lines 213-220
MetricsReturns ==
  /\ pc = "await" /\ step = "getMetrics"
  /\ \E resp \in KMResponses :
       LET metrics == getMetrics(resp) IN
       /\ kmResp' = [kmResp EXCEPT ![filtered[i].symbol] = resp]
       /\ IF metrics = MetricsThrown
            THEN pc' = "thrown" /\ UNCHANGED <<step, i>>
            ELSE IF SkipMetrics(metrics)
                   THEN Continue
                   ELSE pc' = "call" /\ step' = "getRsi" /\ UNCHANGED i
  /\ calls' = Returned(calls)
  /\ UNCHANGED <<screener, filtered, enriched, tpResp, esResp>>
  /\ UNCHANGED <<sentimentVars, queryVars, runVars, bootVars>>

\* lines 223-236: getRsi returns and the record is appended
RsiReturns ==
  /\ pc = "await" /\ step = "getRsi"
  /\ LET stock == filtered[i]
         rsi == getRsi(stock.symbol)
     IN enriched' = Append(enriched,
                      MakeStock(stock, getTargetPrice(tpResp[stock.symbol]),
                                getAnalystSentiment(esResp[stock.symbol]),
                                getMetrics(kmResp[stock.symbol]), rsi))
  /\ Continue
  /\ calls' = Returned(calls)
  /\ UNCHANGED <<screener, filtered, tpResp, esResp, kmResp>>
  /\ UNCHANGED <<sentimentVars, queryVars, runVars, bootVars>>

FetchNext ==
  \/ CallScreener
  \/ ScreenerReturns
  \/ LoopHead
  \/ CallFetcher
  \/ TargetPriceReturns
  \/ AnalystSentimentReturns
  \/ MetricsReturns
  \/ RsiReturns


(***************************************************************************)
(* Claims about fetchUndervaluedStocks (SpecFetch).                        *)
(***************************************************************************)
SymbolsOf(seq) == [k \in 1 .. Len(seq) |-> seq[k].symbol]
Appended(sym) == \E k \in 1 .. Len(enriched) : enriched[k].symbol = sym

\* targetPrice / price > 1.5 (x/0 is Infinity for x > 0)
RatioAbove15(targetPrice, price) ==
  /\ targetPrice.t = "number" /\ price.t = "number"
  /\ IF price.v = 0 THEN targetPrice.v > 0
     ELSE IF price.v > 0 THEN 2 * targetPrice.v > 3 * price.v
     ELSE 2 * targetPrice.v < 3 * price.v

TargetOK(c) ==
  /\ tpResp[c.symbol] # TPNotFetched
  /\ getTargetPrice(tpResp[c.symbol]) # Null
  /\ RatioAbove15(getTargetPrice(tpResp[c.symbol]), c.price)
SentimentOK(c) ==
  /\ esResp[c.symbol] # ESNotFetched
  /\ getAnalystSentiment(esResp[c.symbol]).t = "insights"
MetricsOK(c) ==
  /\ kmResp[c.symbol].t = "data"
  /\ TypeofNumber(kmResp[c.symbol].pe)
  /\ TypeofNumber(kmResp[c.symbol].pb)
  /\ TypeofNumber(kmResp[c.symbol].de)
Passes(c) ==
  ~c.isEtf /\ ~c.isFund /\ TargetOK(c) /\ SentimentOK(c) /\ MetricsOK(c)

\* C1: the sequence fetchUndervaluedStocks returns is exactly the subsequence
\* of the screener answer, in screener order, of the candidates that are not
\* flagged ETF or fund, whose target price was fetched, is non-null and is more
\* than 1.5 times the price, whose analyst-sentiment fetch succeeded and whose
\* P/E, P/B and debt-to-equity are all numbers.
C1_ExactSubsequence ==
  pc = "returned" =>
    /\ SymbolsOf(enriched) = SymbolsOf(SelectSeq(screener.v, Passes))
    /\ \A k \in 1 .. Len(enriched) : enriched[k].price = screener.v[enriched[k].symbol].price

\* a run over three candidates that kept the first and the third and dropped
\* the second on its target price
C1_Witness ==
  /\ pc = "returned"
  /\ Len(screener.v) = 3
  /\ SymbolsOf(enriched) = <<1, 3>>
  /\ tpResp[2] = TPData(Num(150))
  /\ ~screener.v[2].isEtf /\ ~screener.v[2].isFund

PerSymbolFailure(sym) ==
  \/ tpResp[sym].t \in {"throw", "empty"}
  \/ esResp[sym].t \in {"throw", "notArray"} \/ esResp[sym] = ESData(<<>>)
  \/ kmResp[sym].t \in {"throw", "empty"}

\* C2: a failed per-symbol fetch never ends the run: the symbol is skipped and
\* every later candidate is still processed; the run ends with an exception
\* only when the screener call itself failed.
C2_OnlyScreenerAborts ==
  /\ pc = "thrown" => screener.t \in {"throw", "notArray"} /\ calls = <<>>
  /\ \A sym \in Symbols : PerSymbolFailure(sym) => ~Appended(sym)
  /\ pc = "returned" =>
       /\ screener.t = "data"
       /\ \A k \in 1 .. Len(filtered) : tpResp[filtered[k].symbol] # TPNotFetched

\* a run that returned although the target-price request of the first symbol
\* and the metrics request of the second were rejected, and kept the third
C2_Witness ==
  /\ pc = "returned"
  /\ tpResp[1] = TPThrow
  /\ kmResp[2] = KMThrow
  /\ Appended(3)

StepNo(fn) ==
  CASE fn = "getTargetPrice" -> 1
    [] fn = "getAnalystSentiment" -> 2
    [] fn = "getMetrics" -> 3
    [] fn = "getRsi" -> 4

Candidate(sym) == screener.v[sym]

\* the candidate is disqualified by the answer to its call of fn
DisqualifiedAt(sym, fn) ==
  CASE fn = "getTargetPrice" -> ~TargetOK(Candidate(sym))
    [] fn = "getAnalystSentiment" -> ~SentimentOK(Candidate(sym))
    [] fn = "getMetrics" -> ~MetricsOK(Candidate(sym))
    [] fn = "getRsi" -> FALSE

\* C10: the per-symbol calls of a run are sequential and exit early: for each
\* candidate they are made in the order target price, analyst sentiment,
\* metrics, RSI, each at most once; a call is made only after the previous one
\* returned; no call follows the one that disqualified the candidate; and the
\* first call for a candidate is made only after the previous candidate was
\* appended or skipped.
C10_SequentialEarlyExit ==
  /\ \A k \in 1 .. Len(calls) - 1 : calls[k].done
  /\ Len(calls) > 0 => calls[1].fn = "getTargetPrice"
  /\ \A j, k \in 1 .. Len(calls) :
       j < k => ~(calls[j].symbol = calls[k].symbol /\ calls[j].fn = calls[k].fn)
  /\ \A k \in 2 .. Len(calls) :
       LET a == calls[k - 1]
           b == calls[k]
       IN \/ /\ b.symbol = a.symbol
             /\ StepNo(b.fn) = StepNo(a.fn) + 1
             /\ ~DisqualifiedAt(a.symbol, a.fn)
          \/ /\ b.symbol > a.symbol
             /\ b.fn = "getTargetPrice"
             /\ IF a.fn = "getRsi" THEN Appended(a.symbol)
                ELSE DisqualifiedAt(a.symbol, a.fn)

\* a run in which the first candidate went through all four calls and the
\* second was dropped after its analyst-sentiment call
C10_Witness ==
  /\ Len(calls) >= 7
  /\ calls[4] = [symbol |-> 1, fn |-> "getRsi", done |-> TRUE]
  /\ calls[6] = [symbol |-> 2, fn |-> "getAnalystSentiment", done |-> TRUE]
  /\ calls[7].fn = "getTargetPrice"

(***************************************************************************)
(* getAnalystSentiment on its own, over the answers of the estimates       *)
(* endpoint.                                                               *)
(***************************************************************************)
MaxEstimates == 2

EstimateValues ==
  {NullEstimate} \cup
  { Estimate(d, e, ne, nr) :
      d \in {2025, 2026}, e \in {Undefined, Num(2)},
      ne \in {Undefined, Num(0), Num(3)},
      nr \in {Undefined, Null, Num(1), Num(5)} }
AllESResponses ==
  {ESThrow, ESNotArray} \cup
  { ESData(v) : v \in UNION { [1 .. n -> EstimateValues] : n \in 0 .. MaxEstimates } }

SentimentIdle ==
  /\ sPc = "idle"
  /\ sResp = ESNotFetched
  /\ sResult = False

\* line 120: the request is sent
CallAnalystSentiment ==
  /\ sPc = "idle"
  /\ sPc' = "await"
  /\ UNCHANGED <<sResp, sResult>>
  /\ UNCHANGED <<fetchVars, queryVars, runVars, bootVars>>

\* lines 120-145: the request is answered and getAnalystSentiment returns
AnalystSentimentAnswered ==
  /\ sPc = "await"
  /\ \E resp \in AllESResponses :
       /\ sResp' = resp
       /\ sResult' = getAnalystSentiment(resp)
  /\ sPc' = "done"
  /\ UNCHANGED <<fetchVars, queryVars, runVars, bootVars>>

SentimentNext ==
  \/ CallAnalystSentiment
  \/ AnalystSentimentAnswered

\* the latest estimate has a field that is not a number
LatestNotNumeric(resp) ==
  \/ ~resp.v[1].obj
  \/ ~TypeofNumber(resp.v[1].epsAvg)
  \/ ~TypeofNumber(resp.v[1].numAnalystsEps)
  \/ ~TypeofNumber(resp.v[1].numAnalystsRevenue)

\* C9: getAnalystSentiment returns false whenever the request throws, the
\* answer has no data, or the EPS average or an analyst count of the latest
\* estimate is not a number; otherwise it returns the insights of the latest
\* estimate, with analystCount the larger of its two analyst counts; it never
\* throws.
C9_FailsClosed ==
  sPc = "done" =>
    /\ sResult.t # "thrown"
    /\ IF sResp.t # "data" \/ Len(sResp.v) = 0 \/ LatestNotNumeric(sResp)
         THEN sResult = False
         ELSE /\ sResult.t = "insights"
              /\ sResult.period = sResp.v[1].date
              /\ sResult.analystCount =
                   Num(Max2(sResp.v[1].numAnalystsRevenue.v, sResp.v[1].numAnalystsEps.v))

(***************************************************************************)
(* The screener query: the GET /run handler's params and buildQueryParams. *)
(* Strings are sequences of characters.                                    *)
(***************************************************************************)
Str(cs) == [t |-> "string", v |-> cs]
Bool(b) == [t |-> "boolean", v |-> b]

Digits == <<"0", "1", "2", "3", "4", "5", "6", "7", "8", "9">>
IsDigit(c) == \E k \in 1 .. 10 : Digits[k] = c
DigitValue(c) == (CHOOSE k \in 1 .. 10 : Digits[k] = c) - 1

RECURSIVE DecimalValue(_)
DecimalValue(cs) ==
  IF Len(cs) = 0 THEN 0
  ELSE 10 * DecimalValue(SubSeq(cs, 1, Len(cs) - 1)) + DigitValue(cs[Len(cs)])

\* Number(x) for undefined and for strings of digits and letters
Number(x) ==
  IF x.t = "undefined" THEN NaN
  ELSE IF x.t = "string"
    THEN IF \A k \in 1 .. Len(x.v) : IsDigit(x.v[k]) THEN Num(DecimalValue(x.v)) ELSE NaN
  ELSE x

RECURSIVE DecimalText(_)
DecimalText(n) ==
  IF n < 10 THEN <<Digits[n + 1]>>
  ELSE DecimalText(n \div 10) \o <<Digits[(n % 10) + 1]>>

\* String(x), which is also how a template literal renders x
String(x) ==
  CASE x.t = "string" -> x.v
    [] x.t = "number" -> DecimalText(x.v)
    [] x.t = "NaN" -> <<"N", "a", "N">>
    [] x.t = "boolean" -> IF x.v THEN <<"t", "r", "u", "e">> ELSE <<"f", "a", "l", "s", "e">>
    [] x.t = "undefined" -> <<"u", "n", "d", "e", "f", "i", "n", "e", "d">>

\* a || b
Or(a, b) == IF Truthy(a) THEN a ELSE b

\* an object is the sequence of its entries, in insertion order
Entry(key, value) == [key |-> key, value |-> value]
HasKey(obj, key) == \E k \in 1 .. Len(obj) : obj[k].key = key
Put(obj, key, value) ==
  IF HasKey(obj, key)
    THEN [k \in 1 .. Len(obj) |-> IF obj[k].key = key THEN Entry(key, value) ELSE obj[k]]
    ELSE Append(obj, Entry(key, value))

\* { ...target, ...source }
RECURSIVE Spread(_, _)
Spread(target, source) ==
  IF Len(source) = 0 THEN target
  ELSE Spread(Put(target, source[1].key, source[1].value), Tail(source))

defaultParams ==
  << Entry("isActivelyTrading", Bool(TRUE)),
     Entry("limit", Num(400)),
     Entry("exchange", Str(<<"N", "A", "S", "D", "A", "Q">>)) >>

\* the key=value parts of the query string, before they are joined with &
buildQueryParams(params) ==
  LET finalParams == Spread(defaultParams, params)
  IN [k \in 1 .. Len(finalParams) |->
        Entry(finalParams[k].key, String(finalParams[k].value))]

\* index.ts lines 26-46: the params the handler builds from req.query
HandlerParams(q) ==
  << Entry("marketCapLowerThan", Number(q.marketCapLowerThan)),
     Entry("priceLowerThan", Number(q.priceLowerThan)),
     Entry("averageVolumeMoreThan", Number(q.averageVolumeMoreThan)),
     Entry("exchange", Str(String(q.exchange))),
     Entry("isActivelyTrading", Bool(q.isActivelyTrading = Str(<<"t", "r", "u", "e">>))),
     Entry("isEtf", Bool(q.isEtf = Str(<<"t", "r", "u", "e">>))),
     Entry("isFund", Bool(q.isFund = Str(<<"t", "r", "u", "e">>))),
     Entry("limit", Or(Number(q.limit), Num(400))) >>

OptionKeys ==
  {"marketCapLowerThan", "priceLowerThan", "averageVolumeMoreThan", "exchange",
   "isActivelyTrading", "isEtf", "isFund", "limit"}

\* req.query: a key the request does not carry is undefined
Requests ==
  [marketCapLowerThan : {Undefined, Str(<<"7">>)},
   priceLowerThan : {Undefined, Str(<<"2", "0">>)},
   averageVolumeMoreThan : {Undefined, Str(<<"9">>)},
   exchange : {Undefined, Str(<<"N", "Y", "S", "E">>)},
   isActivelyTrading : {Undefined, Str(<<"t", "r", "u", "e">>), Str(<<"f", "a", "l", "s", "e">>)},
   isEtf : {Undefined, Str(<<"t", "r", "u", "e">>)},
   isFund : {Undefined, Str(<<"f", "a", "l", "s", "e">>)},
   limit : {Undefined, Str(<<"5", "0">>), Str(<<"x">>)}]
NoRequest == [k \in OptionKeys |-> Undefined]

\* the options of a caller of fetchUndervaluedStocks that is not the handler
Omitted == [t |-> "omitted", v |-> 0]
DirectOptions ==
  { SelectSeq(<< Entry("limit", l), Entry("priceLowerThan", p), Entry("exchange", e),
                 Entry("isActivelyTrading", a) >>,
              LAMBDA en : en.value # Omitted)
      : l \in {Omitted, Num(50)}, p \in {Omitted, Num(20)},
        e \in {Omitted, Str(<<"N", "Y", "S", "E">>)}, a \in {Omitted, Bool(FALSE)} }

QueryIdle ==
  /\ qPc = "idle"
  /\ qVia = "none"
  /\ qRequest = NoRequest
  /\ qOptions = <<>>
  /\ query = <<>>

\* index.ts lines 23-48 and fetchStocks line 192: a GET /run request
RunRequested ==
  /\ qPc = "idle"
  /\ \E q \in Requests :
       /\ qRequest' = q
       /\ qOptions' = HandlerParams(q)
       /\ query' = buildQueryParams(HandlerParams(q))
  /\ qVia' = "handler"
  /\ qPc' = "done"
  /\ UNCHANGED <<fetchVars, sentimentVars, runVars, bootVars>>

\* fetchStocks lines 189-192: fetchUndervaluedStocks called with options
DirectCall ==
  /\ qPc = "idle"
  /\ \E o \in DirectOptions :
       /\ qOptions' = o
       /\ query' = buildQueryParams(o)
  /\ qVia' = "direct"
  /\ qPc' = "done"
  /\ UNCHANGED qRequest
  /\ UNCHANGED <<fetchVars, sentimentVars, runVars, bootVars>>

QueryNext ==
  \/ RunRequested
  \/ DirectCall

ValueOf(obj, key) == obj[CHOOSE k \in 1 .. Len(obj) : obj[k].key = key].value

\* the caller specified the key
Specified(key) ==
  IF qVia = "handler" THEN qRequest[key] # Undefined ELSE HasKey(qOptions, key)
\* the caller's value for the key, as text
CallerText(key) ==
  IF qVia = "handler" THEN qRequest[key].v ELSE String(ValueOf(qOptions, key))
DefaultText(key) ==
  CASE key = "isActivelyTrading" -> <<"t", "r", "u", "e">>
    [] key = "limit" -> <<"4", "0", "0">>
    [] key = "exchange" -> <<"N", "A", "S", "D", "A", "Q">>

\* C5: each option key of the screener query string carries the caller's
\* value when the caller supplied the key, and its default
\* (isActivelyTrading=true, limit=400, exchange=NASDAQ) when the caller did
\* not; for GET /run a key is supplied exactly when the request carries it.
C5_DefaultsUnlessSupplied ==
  qPc = "done" =>
    \A key \in OptionKeys :
      IF Specified(key)
        THEN HasKey(query, key) /\ ValueOf(query, key) = CallerText(key)
        ELSE key \in {"isActivelyTrading", "limit", "exchange"} =>
               HasKey(query, key) /\ ValueOf(query, key) = DefaultText(key)

\* the same for the callers other than the handler
C5_DirectCallers == qVia = "direct" => C5_DefaultsUnlessSupplied

(***************************************************************************)
(* aiScoring: scoreAndExplain.  The text the model answers with is a       *)
(* sequence of tokens: "[", "]", ",", white space ("ws"), prose without    *)
(* brackets or braces ("txt"), and object literals ("obj", from { to }).   *)
(***************************************************************************)
MaxScored == 4

Tok(k) == [k |-> k, symbol |-> 0, score |-> 0]
Obj(symbol, score) == [k |-> "obj", symbol |-> symbol, score |-> score]

Min2(a, b) == IF a <= b THEN a ELSE b
MinOf(S) == CHOOSE x \in S : \A y \in S : x <= y

\* the first position from j on that holds no white space
RECURSIVE SkipWs(_, _)
SkipWs(c, j) ==
  IF j <= Len(c) /\ c[j].k = "ws" THEN SkipWs(c, j + 1) ELSE j

\* /\[\s*{[\s\S]*?}\s*]/ tried at position s: the position of the closing
\* bracket of the match, 0 when there is none
MatchEnd(c, s) ==
  IF c[s].k # "[" THEN 0
  ELSE LET j == SkipWs(c, s + 1) IN
       IF j > Len(c) \/ c[j].k # "obj" THEN 0
       ELSE LET ends == { e \in j .. Len(c) :
                            /\ c[e].k = "obj"
                            /\ SkipWs(c, e + 1) <= Len(c)
                            /\ c[SkipWs(c, e + 1)].k = "]" }
            IN IF ends = {} THEN 0 ELSE SkipWs(c, MinOf(ends) + 1)

\* content.match(...): the leftmost match, <<>> when there is none
JsonMatch(c) ==
  LET starts == { s \in 1 .. Len(c) : MatchEnd(c, s) # 0 }
  IN IF starts = {} THEN <<>>
     ELSE SubSeq(c, MinOf(starts), MatchEnd(c, MinOf(starts)))

\* JSON.parse of a match: [ obj , obj , ... ] with white space anywhere
JsonValid(m) ==
  LET t == SelectSeq(m, LAMBDA x : x.k # "ws")
  IN /\ Len(t) >= 3 /\ Len(t) % 2 = 1
     /\ t[1].k = "[" /\ t[Len(t)].k = "]"
     /\ \A k \in 2 .. Len(t) - 1 : t[k].k = (IF k % 2 = 0 THEN "obj" ELSE ",")
JsonParse(m) ==
  LET t == SelectSeq(m, LAMBDA x : x.k = "obj")
  IN [k \in 1 .. Len(t) |-> [symbol |-> t[k].symbol, score |-> t[k].score]]

\* answers of the chat-completion request
CCThrow == [t |-> "throw", v |-> <<>>]
CCNoChoices == [t |-> "noChoices", v |-> <<>>]
CCNoContent == [t |-> "noContent", v |-> <<>>]
CCContent(c) == [t |-> "content", v |-> c]
CCNone == [t |-> "none", v |-> <<>>]

ScoreThrown == [t |-> "thrown", v |-> <<>>]

\* aiScoring.ts lines 52-77
scoreAndExplain(r) ==
  IF r.t = "throw" \/ r.t = "noChoices" THEN ScoreThrown
  ELSE IF r.t = "noContent" \/ Len(r.v) = 0 THEN ScoreThrown
  ELSE LET jsonMatch == JsonMatch(r.v) IN
       IF Len(jsonMatch) = 0 THEN ScoreThrown
       ELSE IF ~JsonValid(jsonMatch) THEN ScoreThrown
       ELSE [t |-> "ok", v |-> JsonParse(jsonMatch)]

Scores == {1, 2, 3}
\* a JSON array of n objects: the k-th has symbol k
RECURSIVE ArrayBody(_, _)
ArrayBody(f, n) ==
  IF n = 0 THEN <<>>
  ELSE IF n = 1 THEN <<Obj(1, f[1])>>
  ELSE ArrayBody(f, n - 1) \o <<Tok(","), Obj(n, f[n])>>
ArrayText(f, n) == <<Tok("[")>> \o ArrayBody(f, n) \o <<Tok("]")>>
Arrays == UNION { { ArrayText(f, n) : f \in [1 .. n -> Scores] } : n \in 0 .. MaxScored }
Contents ==
  Arrays
  \cup { <<Tok("txt"), Tok("ws")>> \o a \o <<Tok("txt")>> : a \in Arrays }
  \cup { <<>>,
         <<Tok("txt")>>,
         <<Tok("["), Tok("ws"), Obj(1, 2), Tok("ws"), Tok("]")>>,
         <<Tok("["), Obj(1, 2), Tok("txt"), Tok("]")>>,
         <<Tok("["), Obj(1, 2), Tok("txt"), Obj(2, 3), Tok("]")>>,
         <<Tok("["), Tok("txt"), Tok("]"), Tok("["), Obj(1, 2), Tok("]")>>,
         <<Tok("["), Obj(1, 1), Tok("]"), Tok("["), Obj(2, 3), Tok("]")>> }
Replies == {CCThrow, CCNoChoices, CCNoContent} \cup { CCContent(c) : c \in Contents }

(***************************************************************************)
(* index: runBot and the GET /run handler; notifyDiscord.                  *)
(***************************************************************************)
\* scored.sort((a, b) => b.score - a.score): a stable sort, descending
InsertDesc(x, sorted) ==
  LET n == Cardinality({ k \in 1 .. Len(sorted) : sorted[k].score >= x.score })
  IN SubSeq(sorted, 1, n) \o <<x>> \o SubSeq(sorted, n + 1, Len(sorted))
RECURSIVE SortDesc(_)
SortDesc(list) ==
  IF Len(list) = 0 THEN <<>>
  ELSE InsertDesc(list[Len(list)], SortDesc(SubSeq(list, 1, Len(list) - 1)))

\* line 18 without the sort
Top3Unsorted(list) == SubSeq(list, 1, Min2(3, Len(list)))

\* line 18: scored.sort(...).slice(0, 3)
Top3(list) == SubSeq(SortDesc(list), 1, Min2(3, Len(list)))

\* answers of the chat API to the post
DCThrow == [t |-> "throw", v |-> 0]
DCStatus(n) == [t |-> "status", v |-> n]
DCNone == [t |-> "none", v |-> 0]
DiscordAnswers == {DCThrow} \cup { DCStatus(n) : n \in {200, 201, 204, 403, 500} }

\* axios.post with the default validateStatus: the promise is rejected when no
\* response was obtained and when the status is outside 200..299
AxiosRejects(d) == d.t = "throw" \/ d.v < 200 \/ d.v >= 300

\* res.status(500).send(err.message)
HandlerCatchMessage(cause) == [status |-> 500, text |-> cause, data |-> <<>>]

\* index.ts lines 50-53
HandlerCatch(cause) == [status |-> 500, text |-> "Internal Error", data |-> <<>>]
\* index.ts line 49
ResJson(data) == [status |-> 200, text |-> "", data |-> data]

Respond(r) == responses' = Append(responses, r) /\ hPc' = "responded"

RunIdle ==
  /\ hPc = "idle"
  /\ fetched = "none"
  /\ reply = CCNone
  /\ scored = <<>>
  /\ top3 = <<>>
  /\ posts = <<>>
  /\ discord = DCNone
  /\ logs = {}
  /\ responses = <<>>

\* index.ts lines 23-48 and 15: a request arrives and runBot starts the fetch
GetRun ==
  /\ hPc = "idle"
  /\ hPc' = "fetch"
  /\ UNCHANGED <<fetched, reply, scored, top3, posts, discord, logs, responses>>
  /\ UNCHANGED <<fetchVars, sentimentVars, queryVars, bootVars>>

\* index.ts lines 15-16: fetchUndervaluedStocks returns or throws (SpecFetch
\* has its run); on a return the chat-completion request is sent
FetchEnds ==
  /\ hPc = "fetch"
  /\ \E outcome \in {"throw", "ok"} :
       /\ fetched' = outcome
       /\ IF outcome = "throw"
            THEN Respond(HandlerCatch("fetch"))
            ELSE hPc' = "score" /\ UNCHANGED responses
  /\ UNCHANGED <<reply, scored, top3, posts, discord, logs>>
  /\ UNCHANGED <<fetchVars, sentimentVars, queryVars, bootVars>>

\* index.ts lines 16-19, notifyDiscord lines 13-41: the model answers,
\* scoreAndExplain returns or throws, the top 3 are taken and notifyDiscord
\* either returns at once (empty list) or sends its post
ScoreEnds ==
  /\ hPc = "score"
  /\ \E r \in Replies :
       LET res == scoreAndExplain(r) IN
       /\ reply' = r
       /\ IF res.t = "thrown"
            THEN /\ Respond(HandlerCatch("score"))
                 /\ UNCHANGED <<scored, top3, posts, logs>>
            ELSE /\ scored' = res.v
                 /\ top3' = Top3(res.v)
                 /\ IF Len(Top3(res.v)) = 0
                      THEN /\ logs' = logs \cup {"No stocks to notify"}
                           /\ Respond(ResJson(Top3(res.v)))
                           /\ UNCHANGED posts
                      ELSE /\ posts' = Append(posts, Top3(res.v))
                           /\ hPc' = "notify"
                           /\ UNCHANGED <<logs, responses>>
  /\ UNCHANGED <<fetched, discord>>
  /\ UNCHANGED <<fetchVars, sentimentVars, queryVars, bootVars>>

\* notifyDiscord lines 32-51, index.ts lines 19-20 and 49-53: the post is
\* answered
NotifyEnds ==
  /\ hPc = "notify"
  /\ \E d \in DiscordAnswers :
       /\ discord' = d
       /\ IF AxiosRejects(d)
            THEN /\ logs' = logs \cup {"Failed to send Discord message"}
                 /\ Respond(HandlerCatch("notify"))
            ELSE IF d.v # 200 /\ d.v # 201
                   THEN /\ logs' = logs \cup {"Unexpected Discord API status"}
                        /\ Respond(ResJson(top3))
                   ELSE /\ logs' = logs \cup {"Message sent to Discord successfully"}
                        /\ Respond(ResJson(top3))
  /\ UNCHANGED <<fetched, reply, scored, top3, posts>>
  /\ UNCHANGED <<fetchVars, sentimentVars, queryVars, bootVars>>

RunNext ==
  \/ GetRun
  \/ FetchEnds
  \/ ScoreEnds
  \/ NotifyEnds

(***************************************************************************)
(* The start of the process: index.ts evaluates its imports in order, then *)
(* its body.  A module that throws while it is evaluated ends the process. *)
(***************************************************************************)
MaxRuns == 2

Credentials == {"FMP_API_KEY", "OPENAI_API_KEY", "DISCORD_BOT_TOKEN", "DISCORD_CHANNEL_ID"}
\* process.env.X: not set, set to the empty string, set to a value
EnvValues == {Undefined, Str(<<>>), Str(<<"k">>)}

\* fetchStocks lines 80-84
FmpKeyMissing(e) == ~Truthy(e["FMP_API_KEY"])

\* aiScoring.ts lines 10-12: new OpenAI({ apiKey }) falls back to the
\* environment when apiKey is undefined and throws when there is none
OpenAIConstructorThrows(e) == e["OPENAI_API_KEY"].t = "undefined"

\* the check of notifyDiscord with && for ||
DiscordConfigMissingBoth(e) ==
  ~Truthy(e["DISCORD_BOT_TOKEN"]) /\ ~Truthy(e["DISCORD_CHANNEL_ID"])

\* notifyDiscord.ts lines 4-11
DiscordConfigMissing(e) ==
  ~Truthy(e["DISCORD_BOT_TOKEN"]) \/ ~Truthy(e["DISCORD_CHANNEL_ID"])

BootInit ==
  /\ env \in [Credentials -> EnvValues]
  /\ boot = "start"
  /\ runsStarted = 0

\* the process of the other specifications: configured and listening
BootIdle ==
  /\ env = [c \in Credentials |-> Str(<<"k">>)]
  /\ boot = "listening"
  /\ runsStarted = 0

\* index.ts line 3
LoadFetchStocks ==
  /\ boot = "start"
  /\ boot' = IF FmpKeyMissing(env) THEN "crashed" ELSE "fetchStocks"
  /\ UNCHANGED <<env, runsStarted>>
  /\ UNCHANGED <<fetchVars, sentimentVars, queryVars, runVars>>

\* index.ts line 4
LoadAiScoring ==
  /\ boot = "fetchStocks"
  /\ boot' = IF OpenAIConstructorThrows(env) THEN "crashed" ELSE "aiScoring"
  /\ UNCHANGED <<env, runsStarted>>
  /\ UNCHANGED <<fetchVars, sentimentVars, queryVars, runVars>>

\* index.ts line 5
LoadNotifyDiscord ==
  /\ boot = "aiScoring"
  /\ boot' = IF DiscordConfigMissing(env) THEN "crashed" ELSE "notifyDiscord"
  /\ UNCHANGED <<env, runsStarted>>
  /\ UNCHANGED <<fetchVars, sentimentVars, queryVars, runVars>>

\* index.ts lines 8-12 and 23-58
Listen ==
  /\ boot = "notifyDiscord"
  /\ boot' = "listening"
  /\ UNCHANGED <<env, runsStarted>>
  /\ UNCHANGED <<fetchVars, sentimentVars, queryVars, runVars>>

\* index.ts lines 23 and 48: a GET /run is served and starts a run
StartRun ==
  /\ boot = "listening"
  /\ runsStarted < MaxRuns
  /\ runsStarted' = runsStarted + 1
  /\ UNCHANGED <<env, boot>>
  /\ UNCHANGED <<fetchVars, sentimentVars, queryVars, runVars>>

BootNext ==
  \/ LoadFetchStocks
  \/ LoadAiScoring
  \/ LoadNotifyDiscord
  \/ Listen
  \/ StartRun

(***************************************************************************)
(* The specifications.                                                     *)
(***************************************************************************)
\* a started process in which nothing has been called yet
Init == FetchInit /\ SentimentIdle /\ QueryIdle /\ RunIdle /\ BootIdle
\* a process about to start, in any environment
InitStartup == FetchInit /\ SentimentIdle /\ QueryIdle /\ RunIdle /\ BootInit

SpecFetch == Init /\ [][FetchNext]_vars
SpecSentiment == Init /\ [][SentimentNext]_vars
SpecQuery == Init /\ [][QueryNext]_vars
SpecRun == Init /\ [][RunNext]_vars
SpecStartup == InitStartup /\ [][BootNext]_vars

(***************************************************************************)
(* Claims about the start of the process (SpecStartup).                    *)
(***************************************************************************)
\* C7: if a required credential is missing from the environment, the process
\* aborts while it starts: the server never listens and no run is started.
C7_NoStartWithoutCredentials ==
  (\E c \in Credentials : env[c] = Undefined) =>
    /\ boot \notin {"notifyDiscord", "listening"}
    /\ runsStarted = 0

\* the process crashed with only the chat channel identifier missing
C7_Witness ==
  /\ boot = "crashed"
  /\ env = [c \in Credentials |-> IF c = "DISCORD_CHANNEL_ID" THEN Undefined ELSE Str(<<"k">>)]

(***************************************************************************)
(* Claims about a run started by GET /run (SpecRun).                       *)
(***************************************************************************)
ScoresOf(list) == [k \in 1 .. Len(list) |-> list[k].score]
In(x, list) == \E k \in 1 .. Len(list) : list[k] = x

\* C3: whatever list the scoring service returns, the list runBot hands to the
\* notifier and returns has at most 3 entries, is sorted by descending score
\* and holds the highest-scoring entries of the returned list.
C3_TopThree ==
  (hPc \in {"notify", "responded"} /\ fetched = "ok" /\ scoreAndExplain(reply).t = "ok") =>
    /\ scored = scoreAndExplain(reply).v
    /\ Len(top3) <= 3
    /\ Len(top3) = Min2(3, Len(scored))
    /\ \A k \in 1 .. Len(top3) - 1 : top3[k].score >= top3[k + 1].score
    /\ \A k \in 1 .. Len(top3) : In(top3[k], scored)
    /\ \A j, k \in 1 .. Len(top3) : j # k => top3[j].symbol # top3[k].symbol
    /\ \A j \in 1 .. Len(scored) : \A k \in 1 .. Len(top3) :
         ~In(scored[j], top3) => scored[j].score <= top3[k].score
    /\ posts = <<top3>>
    /\ (hPc = "responded" /\ responses[1].status = 200) => responses[1].data = top3

\* the model returned four entries scored 1, 3, 2, 3 and the run answered with
\* the three scored 3, 3, 2
C3_Witness ==
  /\ hPc = "responded"
  /\ ScoresOf(scored) = <<1, 3, 2, 3>>
  /\ responses = <<ResJson(top3)>>
  /\ ScoresOf(top3) = <<3, 3, 2>>
  /\ posts = <<top3>>

\* C4: when notifyDiscord is given a non-empty list and the chat API answers
\* with a status outside 2xx, notifyDiscord logs a warning and returns
\* normally, so the run is not failed; when no response is obtained it throws
\* and the run fails.
C4_WarnOnStatusThrowOnTransport ==
  (hPc = "responded" /\ discord # DCNone) =>
    /\ (discord.t = "status" /\ (discord.v < 200 \/ discord.v >= 300)) =>
         /\ "Unexpected Discord API status" \in logs
         /\ responses = <<ResJson(top3)>>
    /\ discord.t = "throw" => responses = <<HandlerCatch("notify")>>

\* a stage of the run threw
RunThrew ==
  \/ fetched = "throw"
  \/ reply # CCNone /\ scoreAndExplain(reply).t = "thrown"
  \/ discord # DCNone /\ AxiosRejects(discord)

InternalError == [status |-> 500, text |-> "Internal Error", data |-> <<>>]

\* C6: every GET /run gets exactly one response: the top 3 as JSON when the
\* run ends without an exception, and the same internal-error response, with
\* no data, when the screener call, the scoring or the notification throws.
C6_OneResponse ==
  /\ Len(responses) <= 1
  /\ hPc # "responded" => responses = <<>> /\ ~RunThrew
  /\ hPc = "responded" =>
       /\ Len(responses) = 1
       /\ responses[1] = (IF RunThrew THEN InternalError
                          ELSE [status |-> 200, text |-> "", data |-> top3])

\* the notification threw after a list was scored, and the request got the
\* internal-error response
C6_Witness ==
  /\ hPc = "responded"
  /\ discord = DCThrow
  /\ Len(top3) = 3
  /\ responses = <<InternalError>>

\* the model answered with an empty JSON array
EmptyArrayReply(r) ==
  /\ r.t = "content"
  /\ SelectSeq(r.v, LAMBDA x : x.k \in {"[", "]", "obj", ","}) = <<Tok("["), Tok("]")>>

\* C8: a run whose scoring result is empty ends successfully: it returns an
\* empty list and posts no message, notifyDiscord being a no-op on an empty
\* list.
C8_EmptyRunSucceeds ==
  (hPc = "responded" /\ EmptyArrayReply(reply)) =>
    /\ responses = <<ResJson(<<>>)>>
    /\ posts = <<>>

====
